---- MODULE Spec2Model ----
(***************************************************************************)
(* Model of server.py: the 401(k) contribution demo backend.               *)
(*                                                                         *)
(* State: the settings file data.json (absent, or the JSON text last       *)
(* written), the last request and the response it produced.  One action    *)
(* per entry point: do_GET, do_POST, do_OPTIONS and run_server.            *)
(*                                                                         *)
(* Representation                                                          *)
(*  - A Python / JSON value is a record tagged by k: "null", "bool",       *)
(*    "int", "float", "nan", "inf", "str", "list".  A finite number is     *)
(*    m * 2^e with m odd (or m = 0, e = 0), so that numeric equality is    *)
(*    equality of (m, e) and magnitudes beyond the range of a double       *)
(*    (2^1024 and above) can be written down.                              *)
(*  - A dict is a function from key strings to values.                     *)
(*  - A byte string that is read as JSON (request body, data.json) is a    *)
(*    record [t, top, v]: t says whether it decodes and parses, top is the *)
(*    type of the top-level value and v the dict when top = "object".      *)
(*  - A request path is the sequence obtained by splitting self.path at    *)
(*    "/": "/api/settings" is <<"", "api", "settings">>.                   *)
(*  - A filesystem location is the sequence of its components from "/".    *)
(***************************************************************************)
EXTENDS Integers, Sequences, FiniteSets, TLC

VARIABLES
  file,      \* data.json: Absent, or the JSON text last written
  req,       \* the last request handled
  resp,      \* the response to it
  existed,   \* history: data.json existed when the last request arrived
  repeated,  \* history: the last request repeats the one before it
  last201    \* history: body of the most recent 201 response, or Absent

vars == <<file, req, resp, existed, repeated, last201>>

----------------------------------------------------------------------------
(* Numbers *)

RECURSIVE Norm(_, _)
Norm(m, e) ==
  IF m = 0 THEN [m |-> 0, e |-> 0]
  ELSE IF m % 2 = 0 THEN Norm(m \div 2, e + 1)
  ELSE [m |-> m, e |-> e]

RECURSIVE Pow2(_)
Pow2(n) == IF n <= 0 THEN 1 ELSE 2 * Pow2(n - 1)

RECURSIVE BitLen(_)
BitLen(n) == IF n <= 0 THEN 0 ELSE 1 + BitLen(n \div 2)

Abs(n) == IF n < 0 THEN 0 - n ELSE n

\* sys.float_info.max_exp: a double holds magnitudes below 2^1024.
FloatMaxExp == 1024

Null == [k |-> "null"]
Bool(b) == [k |-> "bool", b |-> b]
Str(s) == [k |-> "str", s |-> s]
List == [k |-> "list"]
NaN == [k |-> "nan"]
Inf(neg) == [k |-> "inf", neg |-> neg]
IntVal(m, e) == [k |-> "int", m |-> Norm(m, e).m, e |-> Norm(m, e).e]
FloatVal(m, e) == [k |-> "float", m |-> Norm(m, e).m, e |-> Norm(m, e).e]

\* |m * 2^e| >= 2^FloatMaxExp
TooLarge(v) == v.m # 0 /\ BitLen(Abs(v.m)) + v.e > FloatMaxExp

\* v < 0 for a float v (every comparison with nan is False)
LtZero(v) ==
  CASE v.k = "nan" -> FALSE
    [] v.k = "inf" -> v.neg
    [] OTHER -> v.m < 0

\* 0 <= v
GeZero(v) ==
  CASE v.k = "nan" -> FALSE
    [] v.k = "inf" -> ~v.neg
    [] OTHER -> v.m >= 0

\* v <= n for a float v and a positive integer n
LeInt(v, n) ==
  CASE v.k = "nan" -> FALSE
    [] v.k = "inf" -> v.neg
    [] OTHER ->
         IF v.m <= 0 THEN TRUE
         ELSE IF v.e >= 0
              THEN v.e < BitLen(n) /\ v.m <= n \div Pow2(v.e)
              ELSE v.m <= n * Pow2(0 - v.e)

----------------------------------------------------------------------------
(* Program constants *)

ROOT_DIR == <<"app">>
PUBLIC_DIR == ROOT_DIR \o <<"public">>
DATA_FILE == ROOT_DIR \o <<"data.json">>

DEFAULT_SETTINGS ==
  [contributionType |-> Str("percent"), contributionValue |-> FloatVal(7, 0)]

MOCK_SUMMARY ==
  [employeeName |-> Str("Alex Johnson"),
   planType |-> Str("Traditional 401(k)"),
   annualSalary |-> IntVal(95000, 0),
   payFrequency |-> IntVal(24, 0),
   ytdContribution |-> IntVal(4100, 0),
   ytdEmployerMatch |-> IntVal(1640, 0),
   companyMatchPercent |-> FloatVal(4, 0),
   age |-> IntVal(30, 0),
   retirementAge |-> IntVal(65, 0),
   estimatedBalanceAtRetirement |-> IntVal(685000, 0)]

MaxPercent == 75

----------------------------------------------------------------------------
(* JSON text *)

EmptyDict == <<>>

JsonObject(d) == [t |-> "json", top |-> "object", v |-> d]
JsonScalar(top) == [t |-> "json", top |-> top, v |-> EmptyDict]
Malformed == [t |-> "malformed", top |-> "", v |-> EmptyDict]
BadUtf8 == [t |-> "badutf8", top |-> "", v |-> EmptyDict]

\* a number literal with a fraction or exponent becomes a float, and one
\* beyond the range of a double becomes inf; an integer literal becomes an
\* int of any size; NaN and Infinity are accepted.
LoadsValue(v) ==
  IF v.k = "float" /\ TooLarge(v) THEN Inf(v.m < 0) ELSE v

\* json.loads / json.load
Loads(text) ==
  CASE text.t = "malformed" ->
         [exc |-> "JSONDecodeError", top |-> "", v |-> EmptyDict]
    [] text.t = "badutf8" ->
         [exc |-> "UnicodeDecodeError", top |-> "", v |-> EmptyDict]
    [] OTHER ->
         [exc |-> "", top |-> text.top,
          v |-> [key \in DOMAIN text.v |-> LoadsValue(text.v[key])]]

\* json.dumps of a dict whose values are strings and floats
Dumps(d) == JsonObject(d)

\* dict.get(key)
Get(d, key) == IF key \in DOMAIN d THEN d[key] ELSE Null

\* the merge that forgets the second dict
Merge_WithoutOverlay(a, b) == a

\* {**a, **b}
Merge(a, b) ==
  [key \in DOMAIN a \cup DOMAIN b |-> IF key \in DOMAIN b THEN b[key] ELSE a[key]]

----------------------------------------------------------------------------
(* Settings store *)

Absent == [t |-> "absent", top |-> "", v |-> EmptyDict]

\* ensure_data_file without the exists() test
ensure_data_file_AlwaysWrites(f) == Dumps(DEFAULT_SETTINGS)

ensure_data_file(f) == IF f # Absent THEN f ELSE Dumps(DEFAULT_SETTINGS)

read_settings(f) ==
  [file |-> ensure_data_file(f), data |-> Loads(ensure_data_file(f)).v]

write_settings(f, settings) == Dumps(settings)

----------------------------------------------------------------------------
(* Responses *)

Raw(s) == [t |-> "raw", top |-> "", v |-> EmptyDict, s |-> s]

Response(status, ctype, body) ==
  [status |-> status, ctype |-> ctype, body |-> body, exc |-> ""]

\* the handler raised: the connection is closed without a response
Raised(exc) ==
  [status |-> 0, ctype |-> "", body |-> Absent, exc |-> exc]

NoResponse == [status |-> 0, ctype |-> "", body |-> Absent, exc |-> "none"]

_send_json(payload, status) ==
  Response(status, "application/json", Dumps(payload))

ErrorPayload(msg) == [error |-> Str(msg)]

----------------------------------------------------------------------------
(* Request paths *)

\* pairs <<p, s>> of path segments of the model where p is a proper prefix
\* of s as a string
ProperPrefix == {<<"settings", "settings.bak">>}

SegStartsWith(seg, p) == seg = p \/ <<p, seg>> \in ProperPrefix

\* self.path.startswith("/api/" + name)
StartsWithApi(path, name) ==
  /\ Len(path) >= 3
  /\ path[1] = ""
  /\ path[2] = "api"
  /\ SegStartsWith(path[3], name)

\* self.path.strip("/"): the leading and trailing empty segments go
RECURSIVE StripLeft(_)
StripLeft(p) ==
  IF p # <<>> /\ Head(p) = "" THEN StripLeft(Tail(p)) ELSE p

RECURSIVE StripRight(_)
StripRight(p) ==
  IF p # <<>> /\ p[Len(p)] = "" THEN StripRight(SubSeq(p, 1, Len(p) - 1)) ELSE p

StripSlashes(p) == StripRight(StripLeft(p))

----------------------------------------------------------------------------
(* Filesystem seen by serve_static *)

Directories ==
  {<<>>, <<"app">>, <<"app", "public">>, <<"app", "public", "css">>, <<"etc">>}

\* regular files other than data.json, with their contents
FileContents ==
  (<<"app", "public", "index.html">> :> "index.html in public") @@
  (<<"app", "public", "css", "site.css">> :> "site.css in public") @@
  (<<"app", "server.py">> :> "server.py source") @@
  (<<"etc", "passwd">> :> "passwd")

\* symbolic links: location -> target
Symlinks == (<<"app", "public", "link">> :> <<"etc">>)

\* Path.resolve(): ".." and symbolic links are resolved component by
\* component; empty and "." components are dropped; at "/" ".." stays put.
RECURSIVE Resolve(_, _)
Resolve(cur, rest) ==
  IF rest = <<>> THEN cur
  ELSE LET seg == Head(rest)
           next == Append(cur, seg)
       IN CASE seg \in {"", "."} -> Resolve(cur, Tail(rest))
            [] seg = ".." ->
                 Resolve(IF cur = <<>> THEN cur ELSE SubSeq(cur, 1, Len(cur) - 1),
                         Tail(rest))
            [] next \in DOMAIN Symlinks -> Resolve(Symlinks[next], Tail(rest))
            [] OTHER -> Resolve(next, Tail(rest))

\* file_path.relative_to(base) does not raise ValueError: a comparison of
\* the components, nothing is looked up
RelativeTo(p, base) ==
  Len(p) >= Len(base) /\ SubSeq(p, 1, Len(base)) = base

\* what the operating system finds at p: it follows ".." and links itself
RealLocation(p) == Resolve(<<>>, p)

IsDirectory(p) == RealLocation(p) \in Directories

Exists(p, f) ==
  \/ RealLocation(p) \in Directories
  \/ RealLocation(p) \in DOMAIN FileContents
  \/ RealLocation(p) = DATA_FILE /\ f # Absent

\* asset.read()
ReadBytes(p) ==
  IF RealLocation(p) = DATA_FILE THEN "data.json"
  ELSE FileContents[RealLocation(p)]

\* file_path.suffix, by the last component's name
Suffix(p) ==
  IF p = <<>> THEN ""
  ELSE CASE p[Len(p)] = "index.html" -> ".html"
         [] p[Len(p)] = "site.css" -> ".css"
         [] p[Len(p)] = "server.py" -> ".py"
         [] p[Len(p)] = "data.json" -> ".json"
         [] OTHER -> ""

ContentType(p) ==
  CASE Suffix(p) \in {".html", ".htm"} -> "text/html; charset=utf-8"
    [] Suffix(p) = ".css" -> "text/css; charset=utf-8"
    [] Suffix(p) = ".js" -> "application/javascript"
    [] OTHER -> "application/octet-stream"

\* self.path.strip("/") or "index.html"
StaticTarget(path) ==
  IF StripSlashes(path) = <<>> THEN <<"index.html">> ELSE StripSlashes(path)

\* PUBLIC_DIR / path without resolve(): empty and "." components dropped,
\* ".." and links left in place
StaticLocation_NotResolved(path) ==
  PUBLIC_DIR \o SelectSeq(StaticTarget(path), LAMBDA seg : seg \notin {"", "."})

\* (PUBLIC_DIR / path).resolve()
StaticLocation(path) == Resolve(PUBLIC_DIR, StaticTarget(path))

serve_static(f, path) ==
  LET file_path == StaticLocation(path)
  IN IF ~RelativeTo(file_path, PUBLIC_DIR)
     THEN Response(403, "application/json", Raw("Forbidden"))
     ELSE IF ~Exists(file_path, f)
     THEN Response(404, "text/plain", Raw("Not found"))
     ELSE IF IsDirectory(file_path)
     THEN Raised("IsADirectoryError")
     ELSE Response(200, ContentType(file_path), Raw(ReadBytes(file_path)))

----------------------------------------------------------------------------
(* POST /api/settings *)

\* float(s) for the strings of the model
FloatOfStr(s) ==
  CASE s = "12" -> [exc |-> "", v |-> FloatVal(12, 0)]
    [] s = "nan" -> [exc |-> "", v |-> NaN]
    [] OTHER -> [exc |-> "ValueError", v |-> NaN]

\* float(v)
ToFloat(v) ==
  CASE v.k \in {"null", "list"} -> [exc |-> "TypeError", v |-> NaN]
    [] v.k = "bool" -> [exc |-> "", v |-> FloatVal(IF v.b THEN 1 ELSE 0, 0)]
    [] v.k = "int" ->
         IF TooLarge(v) THEN [exc |-> "OverflowError", v |-> NaN]
         ELSE [exc |-> "", v |-> [k |-> "float", m |-> v.m, e |-> v.e]]
    [] v.k = "str" -> FloatOfStr(v.s)
    [] OTHER -> [exc |-> "", v |-> v]

\* v not in {"percent", "dollar"}; hashing a list raises TypeError
NotInTypes(v) ==
  CASE v.k = "list" -> [exc |-> "TypeError", r |-> FALSE]
    [] v.k = "str" -> [exc |-> "", r |-> v.s \notin {"percent", "dollar"}]
    [] OTHER -> [exc |-> "", r |-> TRUE]

Unchanged(f, response) == [file |-> f, resp |-> response]

BadRequest(f, msg) == Unchanged(f, _send_json(ErrorPayload(msg), 400))

\* lines 99-117 with write_settings moved before the range checks
ValidateAndStore_WritesBeforeRangeCheck(f, data) ==
  LET contribution_type == Get(data, "contributionType")
      converted == ToFloat(Get(data, "contributionValue"))
      contribution_value == converted.v
      new_settings == [contributionType |-> contribution_type,
                       contributionValue |-> contribution_value]
      written == write_settings(f, new_settings)
  IN IF NotInTypes(contribution_type).exc # ""
     THEN Unchanged(f, Raised(NotInTypes(contribution_type).exc))
     ELSE IF NotInTypes(contribution_type).r
     THEN BadRequest(f, "contributionType must be 'percent' or 'dollar'.")
     ELSE IF converted.exc \in {"TypeError", "ValueError"}
     THEN BadRequest(f, "contributionValue must be numeric.")
     ELSE IF converted.exc # ""
     THEN Unchanged(f, Raised(converted.exc))
     ELSE IF contribution_type.s = "percent"
             /\ ~(GeZero(contribution_value) /\ LeInt(contribution_value, MaxPercent))
     THEN BadRequest(written, "Percent contributions must be between 0 and 75.")
     ELSE IF contribution_type.s = "dollar" /\ LtZero(contribution_value)
     THEN BadRequest(written, "Dollar contributions must be positive.")
     ELSE [file |-> written, resp |-> _send_json(new_settings, 201)]

\* lines 99-117 answering 201 with the settings read before the write
ValidateAndStore_AnswersOldSettings(f, data) ==
  LET contribution_type == Get(data, "contributionType")
      converted == ToFloat(Get(data, "contributionValue"))
      contribution_value == converted.v
      new_settings == [contributionType |-> contribution_type,
                       contributionValue |-> contribution_value]
  IN IF NotInTypes(contribution_type).exc # ""
     THEN Unchanged(f, Raised(NotInTypes(contribution_type).exc))
     ELSE IF NotInTypes(contribution_type).r
     THEN BadRequest(f, "contributionType must be 'percent' or 'dollar'.")
     ELSE IF converted.exc \in {"TypeError", "ValueError"}
     THEN BadRequest(f, "contributionValue must be numeric.")
     ELSE IF converted.exc # ""
     THEN Unchanged(f, Raised(converted.exc))
     ELSE IF contribution_type.s = "percent"
             /\ ~(GeZero(contribution_value) /\ LeInt(contribution_value, MaxPercent))
     THEN BadRequest(f, "Percent contributions must be between 0 and 75.")
     ELSE IF contribution_type.s = "dollar" /\ LtZero(contribution_value)
     THEN BadRequest(f, "Dollar contributions must be positive.")
     ELSE [file |-> write_settings(f, new_settings),
           resp |-> _send_json(read_settings(f).data, 201)]

\* lines 99-117, for the parsed body data
ValidateAndStore(f, data) ==
  LET contribution_type == Get(data, "contributionType")
      converted == ToFloat(Get(data, "contributionValue"))
      contribution_value == converted.v
      new_settings == [contributionType |-> contribution_type,
                       contributionValue |-> contribution_value]
  IN IF NotInTypes(contribution_type).exc # ""
     THEN Unchanged(f, Raised(NotInTypes(contribution_type).exc))
     ELSE IF NotInTypes(contribution_type).r
     THEN BadRequest(f, "contributionType must be 'percent' or 'dollar'.")
     ELSE IF converted.exc \in {"TypeError", "ValueError"}
     THEN BadRequest(f, "contributionValue must be numeric.")
     ELSE IF converted.exc # ""
     THEN Unchanged(f, Raised(converted.exc))
     ELSE IF contribution_type.s = "percent"
             /\ ~(GeZero(contribution_value) /\ LeInt(contribution_value, MaxPercent))
     THEN BadRequest(f, "Percent contributions must be between 0 and 75.")
     ELSE IF contribution_type.s = "dollar" /\ LtZero(contribution_value)
     THEN BadRequest(f, "Dollar contributions must be positive.")
     ELSE [file |-> write_settings(f, new_settings),
           resp |-> _send_json(new_settings, 201)]

\* a request body on the wire: JSON text of Content-Length bytes, or
\* t = "nolen": no Content-Length header, or Content-Length: 0
\* t = "badlen": a Content-Length that int() rejects
NoLength == [t |-> "nolen", top |-> "", v |-> EmptyDict]
BadLength == [t |-> "badlen", top |-> "", v |-> EmptyDict]

do_POST(f, path, body) ==
  IF ~StartsWithApi(path, "settings")
  THEN Unchanged(f, _send_json(ErrorPayload("Unsupported endpoint"), 404))
  ELSE IF body.t = "badlen"
  THEN Unchanged(f, Raised("ValueError"))
  ELSE LET parsed == Loads(IF body.t = "nolen" THEN JsonObject(EmptyDict) ELSE body)
       IN IF parsed.exc = "JSONDecodeError"
          THEN BadRequest(f, "Invalid JSON")
          ELSE IF parsed.exc # ""
          THEN Unchanged(f, Raised(parsed.exc))
          ELSE IF parsed.top # "object"
          THEN Unchanged(f, Raised("AttributeError"))
          ELSE ValidateAndStore(f, parsed.v)

----------------------------------------------------------------------------
(* GET and OPTIONS *)

do_GET(f, path) ==
  IF StartsWithApi(path, "settings")
  THEN [file |-> read_settings(f).file,
        resp |-> _send_json(read_settings(f).data, 200)]
  ELSE IF StartsWithApi(path, "summary")
  THEN [file |-> read_settings(f).file,
        resp |-> _send_json(Merge(MOCK_SUMMARY, read_settings(f).data), 200)]
  ELSE Unchanged(f, serve_static(f, path))

EmptyBody == [t |-> "empty", top |-> "", v |-> EmptyDict]

\* do_OPTIONS going through ensure_data_file first
do_OPTIONS_EnsuresFile(f, path) ==
  [file |-> ensure_data_file(f), resp |-> Response(200, "application/json", EmptyBody)]

do_OPTIONS(f, path) == Unchanged(f, Response(200, "application/json", EmptyBody))

----------------------------------------------------------------------------
(* Requests drawn by the model *)

\* longest request path of StaticPaths, in segments after the leading "/"
MaxSegs == 3

Missing == [k |-> "missing"]

TypeChoices == {Missing, Str("percent"), Str("dollar"), Str("lump_sum"), List}

\* no value, -1, 0, 75, 76, the integer 2^1024, 7.5, a float literal beyond
\* the doubles (read as Infinity), NaN, "12", "abc", "nan", true
ValueChoices ==
  {Missing, IntVal(0 - 1, 0), IntVal(0, 0), IntVal(MaxPercent, 0),
   IntVal(MaxPercent + 1, 0), IntVal(1, FloatMaxExp), FloatVal(15, 0 - 1),
   FloatVal(1, FloatMaxExp), NaN, Str("12"), Str("abc"), Str("nan"), Bool(TRUE)}

ExtraChoices == {EmptyDict, [note |-> Str("x")]}

Field(key, val) == IF val = Missing THEN EmptyDict ELSE (key :> val)

ObjectBodies ==
  {JsonObject(Field("contributionType", t) @@ Field("contributionValue", v) @@ x) :
     t \in TypeChoices, v \in ValueChoices, x \in ExtraChoices}

Bodies ==
  ObjectBodies
  \cup {Malformed, BadUtf8, NoLength, BadLength}
  \cup {JsonScalar(top) : top \in {"array", "number", "string", "null"}}

\* /api/settings, /api/settings.bak, /api/summary, /api, /, /index.html,
\* /../data.json, /missing and the "*" of OPTIONS *
RequestPaths ==
  {<<"", "api", "settings">>, <<"", "api", "settings.bak">>,
   <<"", "api", "summary">>, <<"", "api">>, <<"", "">>, <<"", "index.html">>,
   <<"", "..", "data.json">>, <<"", "missing">>, <<"*">>}

StaticSegments ==
  {"", ".", "..", "index.html", "css", "site.css", "link", "passwd", "data.json",
   "server.py", "etc", "api"}

StaticPaths ==
  {<<"">> \o s : s \in UNION {[1..n -> StaticSegments] : n \in 1..MaxSegs}}

Request(method, path, body) == [method |-> method, path |-> path, body |-> body]

----------------------------------------------------------------------------
(* The state machine *)

\* the module is loaded; data.json is absent or holds the defaults
Init ==
  /\ file \in {Absent, Dumps(DEFAULT_SETTINGS)}
  /\ req = Request("NONE", <<>>, NoLength)
  /\ resp = NoResponse
  /\ existed = (file # Absent)
  /\ repeated = FALSE
  /\ last201 = Absent

Handle(request, result) ==
  /\ file' = result.file
  /\ resp' = result.resp
  /\ req' = request
  /\ existed' = (file # Absent)
  /\ repeated' = (request = req)
  /\ last201' = IF result.resp.status = 201 THEN result.resp.body ELSE last201

GetRequest(path) == Handle(Request("GET", path, NoLength), do_GET(file, path))

DoGET == \E path \in RequestPaths : GetRequest(path)

DoPOST ==
  \E path \in RequestPaths :
    \E body \in IF StartsWithApi(path, "settings") THEN Bodies ELSE {NoLength} :
      Handle(Request("POST", path, body), do_POST(file, path, body))

DoOPTIONS ==
  \E path \in RequestPaths :
    Handle(Request("OPTIONS", path, NoLength), do_OPTIONS(file, path))

\* run_server: ensure_data_file() before the first request is served
RunServer ==
  Handle(Request("START", <<>>, NoLength),
         [file |-> ensure_data_file(file), resp |-> NoResponse])

Next == DoGET \/ DoPOST \/ DoOPTIONS \/ RunServer

Spec == Init /\ [][Next]_vars

\* serve_static as a function of the request path: one GET per behaviour
DoGETStatic == req.method = "NONE" /\ \E path \in StaticPaths : GetRequest(path)

NextStatic == DoGETStatic

SpecStatic == Init /\ [][NextStatic]_vars

----------------------------------------------------------------------------
(* Vocabulary of the properties *)

SettingsPath == <<"", "api", "settings">>

IsSettingsPost(r) == r.method = "POST" /\ StartsWithApi(r.path, "settings")

IsSettingsGet(r) == r.method = "GET" /\ StartsWithApi(r.path, "settings")

IsSummaryGet(r) ==
  /\ r.method = "GET"
  /\ ~StartsWithApi(r.path, "settings")
  /\ StartsWithApi(r.path, "summary")

IsStaticGet(r) ==
  /\ r.method = "GET"
  /\ ~StartsWithApi(r.path, "settings")
  /\ ~StartsWithApi(r.path, "summary")

IsNumber(v) == v.k \in {"int", "float"}

\* a request body with contributionType "percent" and a number in [0, 75],
\* or contributionType "dollar" and a number >= 0
ValidBody(b) ==
  /\ b.t = "json"
  /\ b.top = "object"
  /\ {"contributionType", "contributionValue"} \subseteq DOMAIN b.v
  /\ IsNumber(b.v.contributionValue)
  /\ b.v.contributionValue.m >= 0
  /\ \/ b.v.contributionType = Str("dollar")
     \/ /\ b.v.contributionType = Str("percent")
        /\ LeInt(b.v.contributionValue, 75)

\* equality of JSON values: 7 and 7.0 are the same number
SameValue(a, b) ==
  IF IsNumber(a) /\ IsNumber(b) THEN a.m = b.m /\ a.e = b.e ELSE a = b

SameObject(x, y) ==
  /\ DOMAIN x = DOMAIN y
  /\ \A key \in DOMAIN x : SameValue(x[key], y[key])

\* a contributionValue that float() converts
Convertible(v) ==
  \/ v.k \in {"int", "float", "nan", "inf", "bool"}
  \/ v.k = "str" /\ FloatOfStr(v.s).exc = ""

\* the number a convertible contributionValue stands for
Numeric(v) ==
  CASE v.k = "bool" -> FloatVal(IF v.b THEN 1 ELSE 0, 0)
    [] v.k = "str" -> FloatOfStr(v.s).v
    [] v.k = "float" /\ TooLarge(v) -> Inf(v.m < 0)
    [] OTHER -> v

DefaultDocument ==
  JsonObject([contributionType |-> Str("percent"),
              contributionValue |-> FloatVal(7, 0)])

IsErrorResponse(r, status) ==
  /\ r.status = status
  /\ r.body.t = "json"
  /\ r.body.top = "object"
  /\ DOMAIN r.body.v = {"error"}

HasError(r, msg) == IsErrorResponse(r, 400) /\ r.body.v.error = Str(msg)

----------------------------------------------------------------------------
(* C1 *)

\* C1 (as stated): for every valid request body, POST /api/settings answers
\* 201, and a GET /api/settings that immediately follows returns exactly the
\* posted object.
C1_RoundTrip ==
  [][/\ IsSettingsPost(req') /\ ValidBody(req'.body) => resp'.status = 201
     /\ IsSettingsPost(req) /\ ValidBody(req.body) /\ IsSettingsGet(req')
          => /\ resp'.status = 200
             /\ SameObject(resp'.body.v, req.body.v)]_vars

----------------------------------------------------------------------------
(* C2 *)

\* C2: a POST answered 400 or 404 leaves the persisted settings as they
\* were, so GET /api/settings answers after it what it would have answered
\* before it.
C2_RejectedPostChangesNothing ==
  [][req'.method = "POST" /\ resp'.status \in {400, 404}
       => /\ file' = file
          /\ do_GET(file', SettingsPath).resp = do_GET(file, SettingsPath).resp]_vars

\* settings written by an earlier POST are still there after a POST that was
\* rejected for its percent value
C2_Witness ==
  /\ IsSettingsPost(req)
  /\ HasError(resp, "Percent contributions must be between 0 and 75.")
  /\ file = JsonObject([contributionType |-> Str("dollar"),
                        contributionValue |-> FloatVal(12, 0)])

----------------------------------------------------------------------------
(* C3 *)

\* C3 (as stated): the persisted document is the default while no POST has
\* been answered 201 and the body of the most recent 201 response after
\* that; it has exactly the keys contributionType and contributionValue, the
\* type is percent or dollar, a percent value lies in [0, 75] and a dollar
\* value is >= 0.
C3_PersistedDocument ==
  file # Absent =>
    /\ file = IF last201 = Absent THEN DefaultDocument ELSE last201
    /\ file.t = "json"
    /\ file.top = "object"
    /\ DOMAIN file.v = {"contributionType", "contributionValue"}
    /\ file.v.contributionType \in {Str("percent"), Str("dollar")}
    /\ GeZero(file.v.contributionValue)
    /\ file.v.contributionType = Str("percent")
         => LeInt(file.v.contributionValue, 75)

----------------------------------------------------------------------------
(* C4 *)

\* C4 (as stated): every POST to a path starting with /api/settings is
\* answered, whatever its body: 201 with the persisted object, or 400 with
\* a JSON object {"error": message}.
C4_EveryPostAnswered ==
  IsSettingsPost(req) =>
    \/ resp.status = 201 /\ resp.body = file
    \/ IsErrorResponse(resp, 400)

----------------------------------------------------------------------------
(* C5 *)

MockFields ==
  {"employeeName", "planType", "annualSalary", "payFrequency", "ytdContribution",
   "ytdEmployerMatch", "companyMatchPercent", "age", "retirementAge",
   "estimatedBalanceAtRetirement"}

\* C5: GET /api/summary answers 200 with every mock field at its constant
\* value, plus contributionType and contributionValue as GET /api/settings
\* returns them in the same state; the settings' value wins on a shared key.
C5_SummaryContents ==
  IsSummaryGet(req) =>
    /\ resp.status = 200
    /\ resp.body.t = "json"
    /\ resp.body.top = "object"
    /\ MockFields \cup {"contributionType", "contributionValue"}
         \subseteq DOMAIN resp.body.v
    /\ resp.body.v.employeeName = Str("Alex Johnson")
    /\ resp.body.v.planType = Str("Traditional 401(k)")
    /\ resp.body.v.annualSalary = IntVal(95000, 0)
    /\ resp.body.v.payFrequency = IntVal(24, 0)
    /\ resp.body.v.ytdContribution = IntVal(4100, 0)
    /\ resp.body.v.ytdEmployerMatch = IntVal(1640, 0)
    /\ resp.body.v.companyMatchPercent = FloatVal(4, 0)
    /\ resp.body.v.age = IntVal(30, 0)
    /\ resp.body.v.retirementAge = IntVal(65, 0)
    /\ resp.body.v.estimatedBalanceAtRetirement = IntVal(685000, 0)
    /\ LET settings == do_GET(file, SettingsPath).resp.body.v
       IN /\ {"contributionType", "contributionValue"} \subseteq DOMAIN settings
          /\ \A key \in DOMAIN settings : resp.body.v[key] = settings[key]

\* a summary that carries settings written by an earlier POST
C5_Witness ==
  /\ IsSummaryGet(req)
  /\ resp.status = 200
  /\ "contributionType" \in DOMAIN resp.body.v
  /\ resp.body.v.contributionType = Str("dollar")
  /\ resp.body.v.contributionValue = FloatVal(12, 0)

----------------------------------------------------------------------------
(* C6 *)

\* C6: with no settings file, GET /api/settings, GET /api/summary and server
\* start create it with the default contents, and GET /api/settings returns
\* exactly {"contributionType": "percent", "contributionValue": 7.0}; a file
\* that exists is never deleted, and nothing but a POST answered 201, which
\* writes the values it was sent, replaces its contents.
C6_FirstAccessCreatesDefault ==
  [][/\ file = Absent
          /\ (req'.method = "START" \/ IsSettingsGet(req') \/ IsSummaryGet(req'))
          => file' = DefaultDocument
     /\ file = Absent /\ IsSettingsGet(req')
          => resp'.status = 200 /\ resp'.body = DefaultDocument
     /\ file # Absent
          => /\ file' # Absent
             /\ file' # file
                  => /\ IsSettingsPost(req')
                     /\ resp'.status = 201
                     /\ file' = resp'.body
                     /\ SameValue(file'.v.contributionValue,
                                  Numeric(Get(req'.body.v, "contributionValue")))
                     /\ file'.v.contributionType = Get(req'.body.v, "contributionType")]_vars

\* GET /api/settings arrived when there was no file
C6_Witness ==
  /\ ~existed
  /\ IsSettingsGet(req)
  /\ resp.body = DefaultDocument
  /\ file = DefaultDocument

----------------------------------------------------------------------------
(* C7 *)

\* C7: the same POST /api/settings sent twice in a row gets the same
\* response both times (201 with the same body when it is valid) and leaves
\* the persisted settings after the second as they were after the first.
C7_Idempotent ==
  [][req' = req /\ IsSettingsPost(req)
       => /\ resp' = resp
          /\ file' = file
          /\ resp.status = 201 => resp'.status = 201 /\ resp'.body = resp.body]_vars

\* an accepted POST that has just been repeated
C7_Witness ==
  /\ repeated
  /\ IsSettingsPost(req)
  /\ resp.status = 201
  /\ file = resp.body

----------------------------------------------------------------------------
(* C8 *)

\* a location inside the static asset root /app/public
InsidePublic(loc) == Len(loc) >= 2 /\ loc[1] = "app" /\ loc[2] = "public"

\* contents of the regular files that lie inside the static asset root
PublicContents == {"index.html in public", "site.css in public"}

\* C8: on a GET of a non-API path, if the request path (slashes stripped,
\* empty mapped to index.html) resolved against the static asset root lies
\* outside the root, the response is 403 and carries no file contents; file
\* contents are sent only for a resolved location inside the root.
C8_TraversalForbidden ==
  IsStaticGet(req) =>
    LET target == IF StripSlashes(req.path) = <<>> THEN <<"index.html">>
                  ELSE StripSlashes(req.path)
        location == Resolve(<<"app", "public">>, target)
    IN /\ ~InsidePublic(location)
            => resp.status = 403 /\ resp.body = Raw("Forbidden")
       /\ resp.status = 200
            => InsidePublic(location) /\ resp.body.s \in PublicContents

\* a path that leaves the root through a symbolic link is refused
C8_Witness ==
  /\ IsStaticGet(req)
  /\ req.path = <<"", "link", "passwd">>
  /\ resp.status = 403
  /\ resp.body = Raw("Forbidden")

----------------------------------------------------------------------------
(* C9 *)

\* C9 (as stated): exactly one response per POST /api/settings, chosen by
\* the first failing step: JSON parse, then contributionType, then
\* contributionValue not numeric, then the range of the stated type alone
\* (percent: [0, 75]; dollar: >= 0, no upper limit); 201 when none fails.
C9_OrderedValidation ==
  IsSettingsPost(req) =>
    /\ resp.exc = ""
    /\ resp.status \in {201, 400}
    /\ req.body.t \in {"malformed", "badutf8"} => HasError(resp, "Invalid JSON")
    /\ req.body.t = "json" /\ req.body.top = "object" =>
         LET ctype == Get(req.body.v, "contributionType")
             cvalue == Get(req.body.v, "contributionValue")
         IN IF ctype.k # "str" \/ ctype \notin {Str("percent"), Str("dollar")}
            THEN HasError(resp, "contributionType must be 'percent' or 'dollar'.")
            ELSE IF ~Convertible(cvalue)
            THEN HasError(resp, "contributionValue must be numeric.")
            ELSE IF ctype = Str("percent")
            THEN IF GeZero(Numeric(cvalue)) /\ LeInt(Numeric(cvalue), 75)
                 THEN resp.status = 201
                 ELSE HasError(resp, "Percent contributions must be between 0 and 75.")
            ELSE IF LtZero(Numeric(cvalue))
                 THEN HasError(resp, "Dollar contributions must be positive.")
                 ELSE resp.status = 201

----------------------------------------------------------------------------
(* C10 *)

\* C10: OPTIONS, GET of a static path and POST to a path that does not start
\* with /api/settings leave the settings file untouched, absent included;
\* GET /api/settings and GET /api/summary leave an existing file unchanged
\* and create the default file when there is none; a POST changes the file
\* only when it is answered 201.
C10_OnlyAcceptedPostWrites ==
  [][/\ \/ req'.method = "OPTIONS"
        \/ IsStaticGet(req')
        \/ req'.method = "POST" /\ ~StartsWithApi(req'.path, "settings")
        => file' = file
     /\ IsSettingsGet(req') \/ IsSummaryGet(req')
        => file' = IF file = Absent THEN DefaultDocument ELSE file
     /\ req'.method = "POST" /\ resp'.status # 201 => file' = file]_vars

\* OPTIONS arrived when there was no file and created none
C10_Witness ==
  /\ req.method = "OPTIONS"
  /\ resp.status = 200
  /\ ~existed
  /\ file = Absent

====
